---- MODULE Spec2Model ----
(***************************************************************************)
(* The bounded-concurrency batch dispatcher of the CyberDrive evaluation   *)
(* scripts: process_question / process_batch / main of                     *)
(*   inferenceo1.py (and 8_frames_testing/inference4o_8frames.py, which    *)
(*   has the same dispatcher),  inference_4o_reasoning.py,  gemini_pro.py, *)
(*   gemini_video.py,  gemini_experiments/inference_gemini_thinkning.py,   *)
(*   gemini_experiments/inference_gemini_pro.py.                           *)
(*                                                                         *)
(* One asyncio task (or one loop iteration in the sequential scripts) per  *)
(* WorkItem.  A step of the model is what one task runs between two        *)
(* suspension points of the single-threaded event loop.                    *)
(***************************************************************************)
EXTENDS Naturals, Integers, Sequences, FiniteSets, TLC

\* ---------------------------------------------------------------- bounds
MaxM == 3          \* largest batch (all scripts but gemini_video)
MaxVideoM == 6     \* largest batch of gemini_video (its cooldown needs 5 calls)
MaxN == 2          \* largest max_concurrent_requests
MaxCalls == 2      \* cap on the remote calls issued for one WorkItem
MaxRerunM == 2     \* largest batch that is dispatched a second time
MaxCsvFiles == 3   \* choose_majority: longest csv_files list
MaxAnswers == 3    \* choose_majority: most rows read over all files
MaxCsvId == 2      \* choose_majority: largest id in a CSV
MaxJsonFiles == 3  \* answer extraction: most files in the folder
MaxCsvRows == 3    \* inferenceo1 main: most rows of all_questions.csv
MaxTextLen == 6    \* extract_answer_from_json: longest answer text
MaxLetterFiles == 11   \* extract_letter.process_all_files: most files in the directory

\* ------------------------------------------------------ program constants
batch_size == 5    \* gemini_video: requests before sleeping
SentinelLast == 50 \* extract_answers: ids 1..50 get the answer 'X'
RangeFirst == 51   \* extract_answers: first id whose file is read
RangeLast == 251   \* extract_answers: last id whose file is read
DispatchFirst == 51   \* inferenceo1 main: first id dispatched
DispatchLast == 251   \* inferenceo1 main: last id dispatched
MainConcurrent == 5   \* inferenceo1 main: max_concurrent_requests passed to the processor
LetterPermits == 10   \* extract_letter.process_all_files: asyncio.Semaphore(10)

VARIABLES
    variant,                  \* which script runs
    max_concurrent_requests,  \* N, the argument of Semaphore(...)
    questions,                \* the batch: sequence of [id, question]
    frameStore,               \* identifier -> number of frame_*.jpg files
    pc,                       \* task -> "new" | "waiting" | "incall" | "sleeping" | "done"
    semaphore,                \* the Semaphore's _value
    waiters,                  \* the Semaphore's FIFO of waiting tasks
    running,                  \* task blocking the thread in a synchronous call, or 0
    calls,                    \* task -> remote calls issued so far
    response,                 \* task -> what the provider answered: "none" | "ok" | "empty" | "raise"
    taskResult,               \* task -> the dict process_question returned, or NoResult
    doneOrder,                \* the tasks in the order their process_question returned
    request_count,            \* gemini_video: self.request_count
    pcMain,                   \* "reading" | "crashed" | "gather" | "saving" | "finished"
    results,                  \* the list process_batch returns
    saveIdx,                  \* results saved so far by the save loop
    files,                    \* result sink: identifier -> content of <id>_result.json
    csvRows                   \* inferenceo1 main: the rows of all_questions.csv

VARIABLES
    answerJson,               \* extract_answer_from_json: the argument json_content
    returned                  \* extract_answer_from_json: "pending", or what it returned

answerVars == <<answerJson, returned>>

\* extract_letter.process_all_files
VARIABLES
    letterPc,                 \* file -> "new" | "waiting" | "inside" | "done"
    letterSem,                \* the Semaphore's _value
    replyPlan,                \* file -> how the provider will reply to its request
    successful                \* the count printed at the end, or "none"

letterVars == <<letterPc, letterSem, replyPlan, successful>>

\* a second invocation of the same script over the same batch
VARIABLES
    prev                      \* NoPrev, or what the first invocation left behind

\* choose_majority.find_majority_answers
VARIABLES
    filesRead,                \* iterations of `for file in csv_files` so far
    all_answers,              \* the dict id -> list of answers, in insertion order
    result_df,                \* the rows returned
    skipped,                  \* the messages printed for the files skipped so far
    pcMajority                \* "reading" | "done" | "crashed"

majorityVars == <<filesRead, all_answers, result_df, skipped, pcMajority>>

dispatcherVars ==
    <<variant, max_concurrent_requests, questions, frameStore, pc, semaphore,
      waiters, running, calls, response, taskResult, doneOrder, request_count,
      pcMain, results, saveIdx, files>>

\* the answer-extraction scripts: extract_answers.process_files and
\* extract_letter.process_single_file
VARIABLES
    extractor,                \* which script runs: "extract_answers" | "extract_letter"
    folder,                   \* the *.json files of the folder: [file_id, content]
    jsonIdx,                  \* extract_answers: iterations of `for json_file in json_files`
    answerRows,               \* extract_answers: the list `results` of [id, answer] rows
    processed_ids,            \* extract_answers: the set processed_ids
    missing_ids,              \* extract_answers: the set missing_ids
    printed,                  \* the warnings and errors printed, as <<kind, file index>>
    letterReply,              \* extract_letter: file -> what the provider replied
    letterResult,             \* extract_letter: file -> value process_single_file returned
    letterFiles,              \* extract_letter: output directory, file -> content
    pcExtract                 \* "idle" | "files" | "done"

extractVars == <<extractor, folder, jsonIdx, answerRows, processed_ids, missing_ids,
                 printed, letterReply, letterResult, letterFiles, pcExtract>>

vars == <<dispatcherVars, csvRows, answerVars, letterVars, prev, majorityVars, extractVars>>

\* the state outside one invocation of a dispatcher script
aux == <<csvRows, answerVars, letterVars, prev, majorityVars, extractVars>>

NoPrev == [first |-> TRUE]

\* --------------------------------------------------------------- variants
Variants == {"o1", "4o_reasoning", "gemini_pro", "gemini_video",
             "gemini_thinking", "gemini_exp_pro"}

\* scripts whose process_question is a coroutine run under asyncio.gather
IsAsync(v) == v \in {"o1", "4o_reasoning", "gemini_pro", "gemini_video"}

\* scripts whose remote call is awaited (the others call the SDK synchronously)
AwaitsCall(v) == v \in {"o1", "4o_reasoning"}

\* scripts that look the frames up before calling (gemini_video sends a GCS uri)
ChecksFrames(v) == v # "gemini_video"

\* scripts whose Result dict carries "video_id"
ResultHasId(v) == v \in {"o1", "gemini_pro", "gemini_video", "gemini_thinking"}

\* scripts that have a process_batch returning the list of Results
HasBatch(v) == IsAsync(v) \/ v = "gemini_thinking"

\* what the frame store can hold for an identifier: no frame_*.jpg file, or
\* the extracted frames (process_question only tests the list for emptiness)
FrameCounts == {0, 5}

\* ---------------------------------------------------------------- helpers
M == Len(questions)
Tasks == 1..M

NoResult == [pending |-> TRUE]

\* the free-form text the provider returned to the call of task i
Text(i) == <<"text", i>>

\* dict.pop(key, None)
Pop(d, k) == [x \in DOMAIN d \ {k} |-> d[x]]

\* len(get_frame_paths(video_id))
get_frame_paths(vid) == frameStore[vid]

FramesMissingNever(n) == FALSE
\* `if not frame_paths`
FramesMissing(n) == n = 0

NoFramesError(vid) == <<"No frames found for video ID", vid>>

\* the dict returned on the success path
SuccessResult(v, vid, text, cands) ==
    CASE v = "o1"              -> [video_id |-> vid, answer |-> text, finish_reason |-> "stop"]
      [] v = "4o_reasoning"    -> [answer |-> text, finish_reason |-> "stop"]
      [] v = "gemini_pro"      -> [video_id |-> vid, answer |-> text]
      [] v = "gemini_video"    -> [video_id |-> vid, answer |-> text]
      [] v = "gemini_thinking" -> [video_id |-> vid, answer |-> text, candidates |-> cands]
      [] v = "gemini_exp_pro"  -> [answer |-> text, candidates |-> cands]

ErrorResultNeither(v, vid, e) ==
    IF ResultHasId(v) THEN [video_id |-> vid] ELSE [message |-> e]
\* the dict returned by `except Exception as e`
ErrorResult(v, vid, e) ==
    IF ResultHasId(v) THEN [video_id |-> vid, error |-> e] ELSE [error |-> e]

ProcessResponseShared(v, vid, i, kind) ==
    IF kind = "raise" \/ \E j \in DOMAIN response : response[j] = "raise"
    THEN ErrorResult(v, vid, <<"ProviderError">>)
    ELSE IF kind = "ok"
    THEN SuccessResult(v, vid, Text(i), <<[content |-> Text(i), finish_reason |-> "stop"]>>)
    ELSE ErrorResult(v, vid, <<"ProviderError">>)
\* what process_question makes of the provider's answer to task i: the
\* success dict, or the except handler's error dict
ProcessResponse(v, vid, i, kind) ==
    CASE kind = "raise" -> ErrorResult(v, vid, <<"ProviderError">>)
      [] kind = "ok"    ->
            SuccessResult(v, vid, Text(i), <<[content |-> Text(i), finish_reason |-> "stop"]>>)
      [] kind = "empty" ->
            IF v \in {"gemini_thinking", "gemini_exp_pro"}
            THEN SuccessResult(v, vid, <<>>, <<>>)          \* `... if response.candidates else ""`
            ELSE ErrorResult(v, vid, <<"ValueError">>)      \* response.text raises

\* how a remote call can resolve: "ok" with text, "raise" (any exception
\* inside the try block), or, for the Gemini SDK, "empty": a response without
\* candidates, whose .text raises and whose .candidates is an empty list
Outcomes(v) == IF AwaitsCall(v) THEN {"ok", "raise"} ELSE {"ok", "empty", "raise"}

\* ------------------------------------------------------------- semaphore
SemLockedNever(value, ws) == FALSE
SemLockedAlways(value, ws) == TRUE
\* asyncio.Semaphore.locked(): no permit left, or earlier tasks still queued
SemLocked(value, ws) == value = 0 \/ ws # <<>>

SemReleaseLeak(value) == value
\* asyncio.Semaphore.release(), run by `async with` on every exit path
SemRelease(value) == value + 1

\* ------------------------------------------------------------------ Init
IsCanonical(ids) ==
    \A k \in DOMAIN ids :
        \E b \in 0..(k - 1) :
            /\ ids[k] <= b + 1
            /\ \A j \in 1..(k - 1) : ids[j] <= b
            /\ b = 0 \/ \E j \in 1..(k - 1) : ids[j] = b

\* the batches of a script: identifiers up to renaming; gemini_video, whose
\* cooldown needs batch_size calls, gets longer batches of distinct identifiers
Batches(v) ==
    IF v = "gemini_video"
    THEN {[k \in 1..m |-> [id |-> k, question |-> k]] : m \in 0..MaxVideoM}
    ELSE UNION {{[k \in 1..m |-> [id |-> ids[k], question |-> k]] :
                    ids \in {f \in [1..m -> 1..MaxM] : IsCanonical(f)}} : m \in 0..MaxM}

IdsOf(qs) == {qs[k].id : k \in DOMAIN qs}

FrameStores(v, qs) ==
    IF v = "gemini_video"
    THEN {[x \in IdsOf(qs) |-> n] : n \in FrameCounts}
    ELSE [IdsOf(qs) -> FrameCounts]

\* find_majority_answers is entered: all_answers = {}
MajorityStart ==
    /\ filesRead = 0
    /\ all_answers = <<>>
    /\ result_df = <<>>
    /\ skipped = <<>>
    /\ pcMajority = "reading"

\* extract_answer_from_json is not called on its own
AnswerIdle ==
    /\ answerJson = <<>>
    /\ returned = "pending"

\* extract_letter's process_all_files does not run
LetterIdle ==
    /\ letterPc = <<>>
    /\ letterSem = 0
    /\ replyPlan = <<>>
    /\ successful = "none"

\* no answer-extraction script runs
ExtractIdle ==
    /\ AnswerIdle
    /\ LetterIdle
    /\ extractor = "extract_answers"
    /\ folder = <<>>
    /\ jsonIdx = 0
    /\ answerRows = <<>>
    /\ processed_ids = {}
    /\ missing_ids = {}
    /\ printed = <<>>
    /\ letterReply = <<>>
    /\ letterResult = <<>>
    /\ letterFiles = <<>>
    /\ pcExtract = "idle"

Init ==
    /\ variant \in Variants
    /\ max_concurrent_requests \in (IF IsAsync(variant) THEN 1..MaxN ELSE {0})
    /\ questions \in Batches(variant)
    /\ frameStore \in FrameStores(variant, questions)
    /\ pc = [i \in Tasks |-> "new"]
    /\ semaphore = max_concurrent_requests
    /\ waiters = <<>>
    /\ running = 0
    /\ calls = [i \in Tasks |-> 0]
    /\ response = [i \in Tasks |-> "none"]
    /\ taskResult = [i \in Tasks |-> NoResult]
    /\ doneOrder = <<>>
    /\ request_count = 0
    /\ pcMain = "gather"
    /\ results = <<>>
    /\ saveIdx = 0
    /\ files = <<>>
    /\ csvRows = <<>>
    /\ prev = NoPrev
    /\ MajorityStart
    /\ ExtractIdle

\* ------------------------------------------------------- process_question
CountsRequestsAlways(v) == TRUE
\* scripts whose process_question does `self.request_count += 1` after the call
CountsRequests(v) == v = "gemini_video"

\* the scripts a variant stands for
ScriptsOf(v) ==
    CASE v = "o1"              -> {"inferenceo1", "inference4o_8frames"}
      [] v = "4o_reasoning"    -> {"inference_4o_reasoning"}
      [] v = "gemini_pro"      -> {"gemini_pro"}
      [] v = "gemini_video"    -> {"gemini_video"}
      [] v = "gemini_thinking" -> {"inference_gemini_thinkning"}
      [] v = "gemini_exp_pro"  -> {"inference_gemini_pro"}

CallParamsDefault(script) == [model |-> "default"]
\* the keyword arguments a script passes with its remote call, besides the
\* messages / contents
CallParams(script) ==
    CASE script = "inferenceo1" -> [model |-> "o1"]
      [] script = "inference4o_8frames" ->
            [model |-> "gpt-4o", max_tokens |-> 4096, temperature |-> 0, top_p |-> 0]
      [] script = "inference_4o_reasoning" ->
            [model |-> "gpt-4o", max_tokens |-> 4096, temperature |-> 0, top_p |-> 0]
      [] script = "gemini_pro" ->
            [model |-> "gemini-2.0-pro-exp-02-05", temperature |-> 0, top_p |-> 0]
      [] script = "gemini_video" -> [model |-> "gemini-2.0-flash-001"]
      [] script = "inference_gemini_thinkning" ->
            [model |-> "gemini-2.0-flash-thinking-exp", temperature |-> 0, top_p |-> 0]
      [] script = "inference_gemini_pro" ->
            [model |-> "gemini-2.0-pro-exp-02-05", temperature |-> 0, top_p |-> 0]

AllStarted == \A j \in Tasks : pc[j] # "new"

\* leaving the `async with` block (the sequential scripts have no semaphore)
Exit(value) == IF IsAsync(variant) THEN SemRelease(value) ELSE value

AfterCallEverySleep(v, kind, cnt, issued) ==
    IF v = "gemini_video" /\ kind # "raise" THEN "sleeping" ELSE "done"
AfterCallRetry(v, kind, cnt, issued) ==
    IF kind = "raise" /\ issued < MaxCalls THEN "incall"
    ELSE IF v = "gemini_video" /\ kind # "raise" /\ cnt % batch_size = 0 THEN "sleeping"
    ELSE "done"
\* where process_question goes once the provider has answered: to its return
\* statement, or (gemini_video) into `await asyncio.sleep(self.sleep_duration)`
AfterCall(v, kind, cnt, issued) ==
    IF v = "gemini_video" /\ kind # "raise" /\ cnt % batch_size = 0 THEN "sleeping"
    ELSE "done"

\* the body of the try block from its start to the remote call, run by task i
\* with `value` permits left
Body(i, value) ==
    IF ChecksFrames(variant) /\ FramesMissing(get_frame_paths(questions[i].id))
    THEN /\ taskResult' = [taskResult EXCEPT ![i] =
                ErrorResult(variant, questions[i].id, NoFramesError(questions[i].id))]
         /\ pc' = [pc EXCEPT ![i] = "done"]
         /\ doneOrder' = Append(doneOrder, i)
         /\ semaphore' = Exit(value)
         /\ UNCHANGED <<calls, running>>
    ELSE /\ calls' = [calls EXCEPT ![i] = @ + 1]
         /\ pc' = [pc EXCEPT ![i] = "incall"]
         /\ semaphore' = value
         /\ running' = IF AwaitsCall(variant) THEN 0 ELSE i
         /\ UNCHANGED <<taskResult, doneOrder>>

\* first step of the coroutine of task i: `async with self.semaphore`
Start(i) ==
    /\ IsAsync(variant)
    /\ pcMain = "gather"
    /\ running = 0
    /\ pc[i] = "new"
    /\ \A j \in 1..(i - 1) : pc[j] # "new"
    /\ IF SemLocked(semaphore, waiters)
       THEN /\ pc' = [pc EXCEPT ![i] = "waiting"]
            /\ waiters' = Append(waiters, i)
            /\ UNCHANGED <<semaphore, calls, running, taskResult, doneOrder>>
       ELSE /\ waiters' = waiters
            /\ Body(i, semaphore - 1)
    /\ UNCHANGED <<aux, variant, max_concurrent_requests, questions, frameStore, response,
                   request_count, pcMain, results, saveIdx, files>>

\* the semaphore hands a released permit to its first waiter
Wake(i) ==
    /\ IsAsync(variant)
    /\ running = 0
    /\ AllStarted
    /\ waiters # <<>>
    /\ Head(waiters) = i
    /\ pc[i] = "waiting"
    /\ semaphore > 0
    /\ waiters' = Tail(waiters)
    /\ Body(i, semaphore - 1)
    /\ UNCHANGED <<aux, variant, max_concurrent_requests, questions, frameStore, response,
                   request_count, pcMain, results, saveIdx, files>>

\* the remote call of task i resolves with `kind`; the task runs on to its
\* return statement (or to gemini_video's sleep)
CallReturn(i, kind) ==
    /\ pc[i] = "incall"
    /\ IF AwaitsCall(variant) THEN running = 0 /\ AllStarted ELSE running = i
    /\ LET cnt == IF CountsRequests(variant) /\ kind # "raise"
                  THEN request_count + 1 ELSE request_count
           next == AfterCall(variant, kind, cnt, calls[i])
       IN  /\ response' = [response EXCEPT ![i] = kind]
           /\ request_count' = cnt
           /\ pc' = [pc EXCEPT ![i] = next]
           /\ taskResult' = IF next = "sleeping" THEN taskResult
                            ELSE [taskResult EXCEPT ![i] =
                                    ProcessResponse(variant, questions[i].id, i, kind)]
           /\ doneOrder' = IF next = "done" THEN Append(doneOrder, i) ELSE doneOrder
           /\ semaphore' = IF next = "done" THEN Exit(semaphore) ELSE semaphore
           /\ calls' = IF next = "incall" THEN [calls EXCEPT ![i] = @ + 1] ELSE calls
           /\ running' = IF next = "incall" THEN running ELSE 0
    /\ UNCHANGED <<aux, variant, max_concurrent_requests, questions, frameStore, waiters,
                   pcMain, results, saveIdx, files>>

\* gemini_video: asyncio.sleep(0) is over; response.text is read and returned
SleepReturn(i) ==
    /\ pc[i] = "sleeping"
    /\ running = 0
    /\ AllStarted
    /\ taskResult' = [taskResult EXCEPT ![i] =
                        ProcessResponse(variant, questions[i].id, i, response[i])]
    /\ pc' = [pc EXCEPT ![i] = "done"]
    /\ doneOrder' = Append(doneOrder, i)
    /\ semaphore' = Exit(semaphore)
    /\ UNCHANGED <<aux, variant, max_concurrent_requests, questions, frameStore, waiters,
                   running, calls, response, request_count, pcMain, results, saveIdx,
                   files>>

\* ------------------------------------------------- process_batch and main
GatheredByCompletion == [k \in 1..M |-> taskResult[doneOrder[k]]]

IsAnswer(r) == "answer" \in DOMAIN r

GatheredAnswersOnly == SelectSeq([k \in 1..M |-> taskResult[k]], IsAnswer)
\* asyncio.gather(*tasks): the tasks' return values in the order of `tasks`
Gathered == [k \in 1..M |-> taskResult[k]]

WriteFileKeepFirst(fs, vid, content) ==
    IF vid \in DOMAIN fs THEN fs
    ELSE [x \in DOMAIN fs \cup {vid} |-> IF x = vid THEN content ELSE fs[x]]
WriteFileNoClobber(fs, vid, content) ==
    LET slot == IF vid \in DOMAIN fs THEN vid + 100 ELSE vid
    IN  [x \in DOMAIN fs \cup {slot} |-> IF x = slot THEN content ELSE fs[x]]
WriteFileSkipErrors(fs, vid, content) ==
    IF "error" \in DOMAIN content THEN fs
    ELSE [x \in DOMAIN fs \cup {vid} |-> IF x = vid THEN content ELSE fs[x]]
\* open(output_dir / f"{video_id}_result.json", 'w') and json.dump
WriteFile(fs, vid, content) ==
    [x \in DOMAIN fs \cup {vid} |-> IF x = vid THEN content ELSE fs[x]]

\* the identifier main saves results[k] under: result.pop('video_id'), or
\* question['id'] of zip(questions, results)
SaveKey(k) == IF ResultHasId(variant) THEN results[k].video_id ELSE questions[k].id

Gather ==
    /\ IsAsync(variant)
    /\ pcMain = "gather"
    /\ \A i \in Tasks : pc[i] = "done"
    /\ results' = Gathered
    /\ pcMain' = "saving"
    /\ UNCHANGED <<aux, variant, max_concurrent_requests, questions, frameStore, pc,
                   semaphore, waiters, running, calls, response, taskResult,
                   doneOrder, request_count, saveIdx, files>>

\* one iteration of main's save loop
SaveNext ==
    /\ pcMain = "saving"
    /\ saveIdx < M
    /\ LET k == saveIdx + 1
       IN  /\ files' = WriteFile(files, SaveKey(k), Pop(results[k], "video_id"))
           /\ results' = [results EXCEPT ![k] = Pop(@, "video_id")]
           /\ saveIdx' = k
    /\ UNCHANGED <<aux, variant, max_concurrent_requests, questions, frameStore, pc,
                   semaphore, waiters, running, calls, response, taskResult,
                   doneOrder, request_count, pcMain>>

LoopReadyUnsaved(i) == \A j \in 1..(i - 1) : pc[j] = "done"
\* sequential scripts: the for loop reaches row i once the iteration of row
\* i - 1 has written its file
LoopReady(i) == saveIdx = i - 1

\* sequential scripts: the loop body starts process_question for row i
SeqBegin(i) ==
    /\ ~IsAsync(variant)
    /\ pcMain = "gather"
    /\ pc[i] = "new"
    /\ LoopReady(i)
    /\ Body(i, semaphore)
    /\ UNCHANGED <<aux, variant, max_concurrent_requests, questions, frameStore, waiters,
                   response, request_count, pcMain, results, saveIdx, files>>

\* sequential scripts: the Result of row i is written to its file at once
SeqSave(i) ==
    /\ ~IsAsync(variant)
    /\ pcMain = "gather"
    /\ pc[i] = "done"
    /\ saveIdx = i - 1
    /\ files' = WriteFile(files, questions[i].id, Pop(taskResult[i], "video_id"))
    /\ results' = IF HasBatch(variant) THEN Append(results, taskResult[i]) ELSE results
    /\ saveIdx' = i
    /\ UNCHANGED <<aux, variant, max_concurrent_requests, questions, frameStore, pc,
                   semaphore, waiters, running, calls, response, taskResult,
                   doneOrder, request_count, pcMain>>

\* the loop over the rows (or over the results) is exhausted
Finish ==
    /\ pcMain = (IF IsAsync(variant) THEN "saving" ELSE "gather")
    /\ saveIdx = M
    /\ pcMain' = "finished"
    /\ UNCHANGED <<aux, variant, max_concurrent_requests, questions, frameStore, pc,
                   semaphore, waiters, running, calls, response, taskResult,
                   doneOrder, request_count, results, saveIdx, files>>

Next ==
    \/ \E i \in Tasks : Start(i)
    \/ \E i \in Tasks : Wake(i)
    \/ \E i \in Tasks : \E kind \in Outcomes(variant) : CallReturn(i, kind)
    \/ \E i \in Tasks : SleepReturn(i)
    \/ Gather
    \/ SaveNext
    \/ \E i \in Tasks : SeqBegin(i)
    \/ \E i \in Tasks : SeqSave(i)
    \/ Finish

Spec == Init /\ [][Next]_vars

\* every remote call resolves and the event loop keeps running ready tasks
FairSpec == Spec /\ WF_vars(Next)

\* ------------------------------------------------------------ second run
\* the script is invoked again: main builds a new processor (new semaphore,
\* request_count = 0), reads the same CSV and frames; the output directory
\* keeps the files of the first invocation
Rerun ==
    /\ pcMain = "finished"
    /\ prev = NoPrev
    /\ prev' = [files |-> files, response |-> response]
    /\ pc' = [i \in Tasks |-> "new"]
    /\ semaphore' = max_concurrent_requests
    /\ waiters' = <<>>
    /\ running' = 0
    /\ calls' = [i \in Tasks |-> 0]
    /\ response' = [i \in Tasks |-> "none"]
    /\ taskResult' = [i \in Tasks |-> NoResult]
    /\ doneOrder' = <<>>
    /\ request_count' = 0
    /\ pcMain' = "gather"
    /\ results' = <<>>
    /\ saveIdx' = 0
    /\ UNCHANGED <<variant, max_concurrent_requests, questions, frameStore, files>>
    /\ UNCHANGED <<csvRows, answerVars, letterVars, majorityVars, extractVars>>

\* the batches dispatched twice are shorter than batch_size: no task of
\* gemini_video reaches the cooldown sleep, in either invocation
InitRerun == Init /\ Len(questions) <= MaxRerunM

NextRerun ==
    \/ \E i \in Tasks : Start(i)
    \/ \E i \in Tasks : Wake(i)
    \/ \E i \in Tasks : \E kind \in Outcomes(variant) : CallReturn(i, kind)
    \/ Gather
    \/ SaveNext
    \/ \E i \in Tasks : SeqBegin(i)
    \/ \E i \in Tasks : SeqSave(i)
    \/ Finish
    \/ Rerun

SpecRerun == InitRerun /\ [][NextRerun]_vars

\* -------------------------------------------------------- choose_majority
\* answers are compared as strings: "A" < "B" < "C", here by character code
Answers == {65, 66, 67}

CsvRows == [id : 1..MaxCsvId, answer : Answers]

\* a file of csv_files: pd.read_csv raises, or gives a table
CsvFiles(maxRows) ==
    {[readable |-> FALSE, columns |-> {}, rows |-> <<>>]} \cup
    {[readable |-> TRUE, columns |-> c, rows |-> r] :
        c \in {{"id", "answer"}, {"id"}, {"answer"}},
        r \in UNION {[1..n -> CsvRows] : n \in 0..maxRows}}

RECURSIVE TotalAnswers(_)
TotalAnswers(d) ==
    IF d = <<>> THEN 0 ELSE Len(d[1].answers) + TotalAnswers(Tail(d))

\* if id_num not in all_answers: all_answers[id_num] = [];
\* all_answers[id_num].append(answer)
AddAnswer(d, row) ==
    IF \E k \in DOMAIN d : d[k].id = row.id
    THEN [k \in DOMAIN d |->
            IF d[k].id = row.id
            THEN [d[k] EXCEPT !.answers = Append(@, row.answer)]
            ELSE d[k]]
    ELSE Append(d, [id |-> row.id, answers |-> <<row.answer>>])

\* for _, row in df.iterrows(): ...
RECURSIVE AddRows(_, _)
AddRows(d, rows) ==
    IF rows = <<>> THEN d ELSE AddRows(AddAnswer(d, Head(rows)), Tail(rows))

\* one iteration of `for file in csv_files`: a file that cannot be read or
\* lacks a required column is reported and skipped
ReadCsvAnyColumns(d, f) == IF f.readable THEN AddRows(d, f.rows) ELSE d
ReadCsv(d, f) ==
    IF f.readable /\ "id" \in f.columns /\ "answer" \in f.columns
    THEN AddRows(d, f.rows)
    ELSE d

\* what the iteration prints: nothing for a file that is processed
SkipMessage(f) ==
    IF ~f.readable THEN <<"Error processing file">>
    ELSE IF "id" \notin f.columns \/ "answer" \notin f.columns
         THEN <<"Error: Required columns missing">>
         ELSE <<>>

\* Counter(answers), as the pairs <<answer, count>> in first-seen order
RECURSIVE Counter(_)
Counter(answers) ==
    IF answers = <<>> THEN <<>>
    ELSE LET n == Len(answers)
             c == Counter(SubSeq(answers, 1, n - 1))
             a == answers[n]
         IN  IF \E k \in DOMAIN c : c[k][1] = a
             THEN [k \in DOMAIN c |-> IF c[k][1] = a THEN <<a, c[k][2] + 1>> ELSE c[k]]
             ELSE Append(c, <<a, 1>>)

SetMax(S) == CHOOSE x \in S : \A y \in S : y <= x
SetMin(S) == CHOOSE x \in S : \A y \in S : x <= y

MajorityAnswerFirstSeen(answers) ==
    LET counter == Counter(answers)
        max_count == SetMax({counter[k][2] : k \in DOMAIN counter})
    IN  counter[SetMin({k \in DOMAIN counter : counter[k][2] = max_count})][1]
\* max_count = max(counter.values()); max_answers = the answers with that
\* count; majority_answer = min(max_answers)
MajorityAnswer(answers) ==
    LET counter == Counter(answers)
        max_count == SetMax({counter[k][2] : k \in DOMAIN counter})
        max_answers == {counter[k][1] : k \in {j \in DOMAIN counter : counter[j][2] = max_count}}
    IN  SetMin(max_answers)

\* for id_num, answers in all_answers.items(): if answers: ... append
MajorityResults(d) ==
    [k \in DOMAIN d |-> [id |-> d[k].id, answer |-> MajorityAnswer(d[k].answers)]]

\* result_df.sort_values('id'); the ids are the keys of a dict, hence distinct
SortValuesByIdUnsorted(rows) == rows
SortValuesById(rows) ==
    [k \in DOMAIN rows |->
        rows[CHOOSE j \in DOMAIN rows :
                Cardinality({i \in DOMAIN rows : rows[i].id < rows[j].id}) = k - 1]]

ReadFile(f) ==
    /\ pcMajority = "reading"
    /\ filesRead < MaxCsvFiles
    /\ all_answers' = ReadCsv(all_answers, f)
    /\ filesRead' = filesRead + 1
    /\ skipped' = skipped \o SkipMessage(f)
    /\ UNCHANGED <<result_df, pcMajority>>
    /\ UNCHANGED <<dispatcherVars, csvRows, answerVars, letterVars, prev, extractVars>>

\* the loop over csv_files has ended; pd.DataFrame([]) has no column 'id', so
\* sort_values raises KeyError when nothing was collected
ComputeMajority ==
    /\ pcMajority = "reading"
    /\ IF all_answers = <<>>
       THEN /\ pcMajority' = "crashed"
            /\ UNCHANGED result_df
       ELSE /\ pcMajority' = "done"
            /\ result_df' = SortValuesById(MajorityResults(all_answers))
    /\ UNCHANGED <<filesRead, all_answers, skipped>>
    /\ UNCHANGED <<dispatcherVars, csvRows, answerVars, letterVars, prev, extractVars>>

\* no dispatcher script runs
DispatcherIdle ==
    /\ variant = "o1"
    /\ max_concurrent_requests = 1
    /\ questions = <<>>
    /\ frameStore = <<>>
    /\ pc = <<>>
    /\ semaphore = max_concurrent_requests
    /\ waiters = <<>>
    /\ running = 0
    /\ calls = <<>>
    /\ response = <<>>
    /\ taskResult = <<>>
    /\ doneOrder = <<>>
    /\ request_count = 0
    /\ pcMain = "finished"
    /\ results = <<>>
    /\ saveIdx = 0
    /\ files = <<>>
    /\ csvRows = <<>>
    /\ prev = NoPrev

InitMajority == DispatcherIdle /\ MajorityStart /\ ExtractIdle

NextMajority ==
    \/ \E f \in CsvFiles(MaxAnswers - TotalAnswers(all_answers)) : ReadFile(f)
    \/ ComputeMajority

SpecMajority == InitMajority /\ [][NextMajority]_vars

\* ------------------------------------------------------- answer extraction
\* file names and CSV ids are strings, here sequences of character codes:
\* "0".."9" are 48..57, "+" 43, "-" 45, "_" 95, "a" 97
IsDigits(str) == str # <<>> /\ \A k \in DOMAIN str : str[k] \in 48..57

RECURSIVE DigitsValue(_)
DigitsValue(str) ==
    IF str = <<>> THEN 0
    ELSE 10 * DigitsValue(SubSeq(str, 1, Len(str) - 1)) + (str[Len(str)] - 48)

ValueError == [ok |-> FALSE, value |-> 0]

\* int(file_id): an optional sign and decimal digits, ValueError otherwise
\* (file names with blanks or underscores inside the id are not considered)
ParseInt(str) ==
    IF IsDigits(str) THEN [ok |-> TRUE, value |-> DigitsValue(str)]
    ELSE IF str # <<>> /\ str[1] \in {43, 45} /\ IsDigits(Tail(str))
         THEN [ok |-> TRUE,
               value |-> IF str[1] = 45 THEN 0 - DigitsValue(Tail(str))
                                        ELSE DigitsValue(Tail(str))]
         ELSE ValueError

\* str(n) for n >= 0
RECURSIVE Str(_)
Str(n) == IF n < 10 THEN <<48 + n>> ELSE Str(n \div 10) \o <<48 + (n % 10)>>

\* str.zfill(width) of an unsigned string
RECURSIVE Zfill(_, _)
Zfill(str, width) == IF Len(str) >= width THEN str ELSE Zfill(<<48>> \o str, width)

\* a < b in the order of Python strings
RECURSIVE StrLess(_, _)
StrLess(a, b) ==
    IF b = <<>> THEN FALSE
    ELSE IF a = <<>> THEN TRUE
    ELSE IF a[1] # b[1] THEN a[1] < b[1]
    ELSE StrLess(Tail(a), Tail(b))

\* the file name <file_id>_result.json, up to the part all names share
FileName(file_id) == file_id \o <<95>>

\* the file ids of the folders considered: "00050", "00051", "00251",
\* "00252", "51" and "a51"
SampleFileIds ==
    {<<48, 48, 48, 53, 48>>, <<48, 48, 48, 53, 49>>, <<48, 48, 50, 53, 49>>,
     <<48, 48, 50, 53, 50>>, <<53, 49>>, <<97, 53, 49>>}

\* the texts are sequences of characters in which each of the tags <answer>
\* and </answer> is one element
AnswerLetters == {"A", "B", "C", "D", "E"}
Whitespace == {" ", "\n"}

NotJson == [kind |-> "invalid"]
JsonDict(d) == [kind |-> "json", data |-> d]

\* file contents: not JSON, an error Result of a dispatcher, an answer
\* without tag, an answer with a bare letter tag, an answer with a longer tag
SampleContents ==
    {NotJson,
     JsonDict([error |-> <<"x">>]),
     JsonDict([answer |-> <<"B", " ", "x">>]),
     JsonDict([answer |-> <<"x", "<answer>", "B", "</answer>">>]),
     JsonDict([answer |-> <<"<answer>", "A", ".", " ", "x", "</answer>">>])}

\* sorted(names): the names of S in ascending order
SortedNames(S) ==
    [k \in 1..Cardinality(S) |->
        CHOOSE x \in S :
            Cardinality({y \in S : StrLess(FileName(y), FileName(x))}) = k - 1]

\* the folders whose files have the ids S, listed in the order of their names
FoldersOf(S, contents) ==
    LET names == SortedNames(S)
    IN  {[k \in 1..Cardinality(S) |-> [file_id |-> names[k], content |-> cs[k]]] :
            cs \in [1..Cardinality(S) -> contents]}

\* extract_letter reads only whether the file is JSON and has an answer text
LetterContents ==
    {NotJson,
     JsonDict([error |-> <<"x">>]),
     JsonDict([answer |-> <<"B", " ", "x">>])}

\* sorted(folder.glob('*.json')) of extract_answers; the ids play no part
\* in extract_letter, whose folders take the first ids only
Folders(script) ==
    IF script = "extract_answers"
    THEN UNION {FoldersOf(S, SampleContents) :
                    S \in {T \in SUBSET SampleFileIds : Cardinality(T) <= MaxJsonFiles}}
    ELSE UNION {FoldersOf({SortedNames(SampleFileIds)[k] : k \in 1..n}, LetterContents) :
                    n \in 0..MaxJsonFiles}

\* json_content.get('answer', '')
GetAnswer(data) == IF "answer" \in DOMAIN data THEN data.answer ELSE <<>>

\* '<answer>([A-E])[.\s].*?</answer>' matches at position p ('.' matches no newline)
MatchesLong(text, p) ==
    /\ p + 3 <= Len(text)
    /\ text[p] = "<answer>"
    /\ text[p + 1] \in AnswerLetters
    /\ text[p + 2] \in {"."} \cup Whitespace
    /\ \E q \in (p + 3)..Len(text) :
        /\ text[q] = "</answer>"
        /\ \A r \in (p + 3)..(q - 1) : text[r] # "\n"

\* '<answer>([A-E])</answer>' matches at position p
MatchesBare(text, p) ==
    /\ p + 2 <= Len(text)
    /\ text[p] = "<answer>"
    /\ text[p + 1] \in AnswerLetters
    /\ text[p + 2] = "</answer>"

\* group(1) of the leftmost match
FirstLetter(text, P) ==
    text[(CHOOSE p \in P : \A q \in P : p <= q) + 1]

extract_answer_from_json(json_content) ==
    LET answer_text == GetAnswer(json_content)
        long == {p \in DOMAIN answer_text : MatchesLong(answer_text, p)}
        bare == {p \in DOMAIN answer_text : MatchesBare(answer_text, p)}
    IN  IF long # {} THEN FirstLetter(answer_text, long)
        ELSE IF bare # {} THEN FirstLetter(answer_text, bare)
        ELSE "None"

InRangeAlways(id_num) == TRUE
\* if 51 <= id_num <= 251
InRange(id_num) == RangeFirst <= id_num /\ id_num <= RangeLast

JsonFileOutcomeErrorRow(f) ==
    LET id == ParseInt(f.file_id)
    IN  IF ~id.ok THEN [rows |-> <<<<f.file_id, "error">>>>, ids |-> {}, msg |-> "invalid_id"]
        ELSE IF ~InRange(id.value) THEN [rows |-> <<>>, ids |-> {}, msg |-> "none"]
        ELSE IF f.content.kind # "json"
             THEN [rows |-> <<<<f.file_id, "error">>>>, ids |-> {}, msg |-> "error"]
        ELSE LET answer == extract_answer_from_json(f.content.data)
             IN  IF answer # "None"
                 THEN [rows |-> <<<<f.file_id, answer>>>>, ids |-> {id.value}, msg |-> "none"]
                 ELSE [rows |-> <<<<f.file_id, "error">>>>, ids |-> {}, msg |-> "no_answer"]
\* the body of `for json_file in json_files`: the rows it appends, the ids it
\* adds to processed_ids and what it prints
JsonFileOutcome(f) ==
    LET id == ParseInt(f.file_id)
    IN  IF ~id.ok THEN [rows |-> <<>>, ids |-> {}, msg |-> "invalid_id"]
        ELSE IF ~InRange(id.value) THEN [rows |-> <<>>, ids |-> {}, msg |-> "none"]
        ELSE IF f.content.kind # "json"
             THEN [rows |-> <<>>, ids |-> {}, msg |-> "error"]
        ELSE LET answer == extract_answer_from_json(f.content.data)
             IN  IF answer # "None"
                 THEN [rows |-> <<<<f.file_id, answer>>>>, ids |-> {id.value}, msg |-> "none"]
                 ELSE [rows |-> <<>>, ids |-> {}, msg |-> "no_answer"]

\* print(...) of a warning or an error for file k
Report(log, msg, k) == IF msg = "none" THEN log ELSE Append(log, <<msg, k>>)

\* for id_num in range(1, 51): results.append([str(id_num).zfill(5), 'X'])
SentinelRows == [n \in 1..SentinelLast |-> <<Zfill(Str(n), 5), "X">>]

SortByIntIdUnsorted(rows) == rows
\* results.sort(key=lambda x: int(x[0])): the keys are computed once per
\* row; a row's place is one more than the number of rows with a smaller key
\* or with the same key and an earlier position (the sort is stable)
SortByIntId(rows) ==
    LET n == Len(rows)
        keys == SubSeq([i \in 1..n |-> ParseInt(rows[i][1]).value], 1, n)
        place == SubSeq([j \in 1..n |->
                    1 + Cardinality({i \in 1..n :
                            \/ keys[i] < keys[j]
                            \/ keys[i] = keys[j] /\ i < j})], 1, n)
    IN  [k \in 1..n |-> rows[CHOOSE j \in 1..n : place[j] = k]]

\* extract_answers: one iteration of `for json_file in json_files`
ProcessJsonFile ==
    /\ extractor = "extract_answers"
    /\ pcExtract = "files"
    /\ jsonIdx < Len(folder)
    /\ LET k == jsonIdx + 1
           out == JsonFileOutcome(folder[k])
       IN  /\ answerRows' = answerRows \o out.rows
           /\ processed_ids' = processed_ids \cup out.ids
           /\ printed' = Report(printed, out.msg, k)
           /\ jsonIdx' = k
    /\ UNCHANGED <<extractor, folder, missing_ids, letterReply, letterResult,
                   letterFiles, pcExtract>>
    /\ UNCHANGED <<dispatcherVars, csvRows, answerVars, letterVars, prev, majorityVars>>

\* extract_answers: the loop has ended; sort, report the missing ids, write
\* the CSV
FinishFiles ==
    /\ extractor = "extract_answers"
    /\ pcExtract = "files"
    /\ jsonIdx = Len(folder)
    /\ answerRows' = SortByIntId(answerRows)
    /\ missing_ids' = (RangeFirst..RangeLast) \ processed_ids
    /\ pcExtract' = "done"
    /\ UNCHANGED <<extractor, folder, jsonIdx, processed_ids, printed, letterReply,
                   letterResult, letterFiles>>
    /\ UNCHANGED <<dispatcherVars, csvRows, answerVars, letterVars, prev, majorityVars>>

\* extract_letter: the file is JSON with a non-empty 'answer', so the
\* provider is called
CallsProvider(f) == f.content.kind = "json" /\ GetAnswer(f.content.data) # <<>>

\* what the provider can reply: status 200 with a completion, status 200 with
\* a body without choices, another status, or the request raises
Replies(f) == IF CallsProvider(f) THEN {"ok", "malformed", "non200", "raise"}
                                  ELSE {"nocall"}

\* the provider's completion, stripped
Completion == <<"<answer>", "B", "</answer>">>

\* extract_letter.process_single_file: the value returned, whether
\* <video_id>_result.json was written, and the warning or error printed
process_single_file(f, reply) ==
    IF f.content.kind # "json"
    THEN [ret |-> "None", written |-> FALSE, msg |-> "error"]
    ELSE IF GetAnswer(f.content.data) = <<>>
    THEN [ret |-> "None", written |-> FALSE, msg |-> "no_answer"]
    ELSE IF reply = "non200"
    THEN [ret |-> "None", written |-> FALSE, msg |-> "api_error"]
    ELSE IF reply = "ok"
    THEN [ret |-> <<f.file_id, Completion>>, written |-> TRUE, msg |-> "none"]
    ELSE [ret |-> "None", written |-> FALSE, msg |-> "error"]

\* extract_letter: process_single_file runs for file k, in any order
LetterFile(k, reply) ==
    /\ extractor = "extract_letter"
    /\ pcExtract = "files"
    /\ letterResult[k] = "pending"
    /\ LET out == process_single_file(folder[k], reply)
       IN  /\ letterResult' = [letterResult EXCEPT ![k] = out.ret]
           /\ letterReply' = [letterReply EXCEPT ![k] = reply]
           /\ letterFiles' =
                IF out.written
                THEN [x \in DOMAIN letterFiles \cup {k} |->
                        IF x = k THEN [answer |-> out.ret[2]] ELSE letterFiles[x]]
                ELSE letterFiles
           /\ printed' = Report(printed, out.msg, k)
    /\ UNCHANGED <<extractor, folder, jsonIdx, answerRows, processed_ids, missing_ids,
                   pcExtract>>
    /\ UNCHANGED <<dispatcherVars, csvRows, answerVars, letterVars, prev, majorityVars>>

\* extract_letter: asyncio.gather has returned
FinishLetter ==
    /\ extractor = "extract_letter"
    /\ pcExtract = "files"
    /\ \A k \in DOMAIN folder : letterResult[k] # "pending"
    /\ pcExtract' = "done"
    /\ UNCHANGED <<extractor, folder, jsonIdx, answerRows, processed_ids, missing_ids,
                   printed, letterReply, letterResult, letterFiles>>
    /\ UNCHANGED <<dispatcherVars, csvRows, answerVars, letterVars, prev, majorityVars>>

InitExtract ==
    /\ DispatcherIdle
    /\ MajorityStart
    /\ AnswerIdle
    /\ LetterIdle
    /\ extractor \in {"extract_answers", "extract_letter"}
    /\ folder \in Folders(extractor)
    /\ jsonIdx = 0
    /\ answerRows = (IF extractor = "extract_answers" THEN SentinelRows ELSE <<>>)
    /\ processed_ids = {}
    /\ missing_ids = {}
    /\ printed = <<>>
    /\ letterReply = (IF extractor = "extract_letter"
                        THEN [k \in DOMAIN folder |-> "none"] ELSE <<>>)
    /\ letterResult = (IF extractor = "extract_letter"
                        THEN [k \in DOMAIN folder |-> "pending"] ELSE <<>>)
    /\ letterFiles = <<>>
    /\ pcExtract = "files"

NextExtract ==
    \/ ProcessJsonFile
    \/ FinishFiles
    \/ \E k \in DOMAIN folder : \E reply \in Replies(folder[k]) : LetterFile(k, reply)
    \/ FinishLetter

SpecExtract == InitExtract /\ [][NextExtract]_vars

\* ------------------------------------------ extract_letter.process_all_files
\* the ways process_single_file can fail: the file is no JSON, it has no
\* answer text, the provider replies with another status than 200, with a
\* body without choices, or the request raises
FailKinds == <<"notjson", "noanswer", "non200", "malformed", "raise">>

\* the directories and the provider's replies considered: every fourth file
\* fails, the ways of failing taken in turn, from any of four offsets
LetterKind(k, o) ==
    IF (k + o) % 4 = 0 THEN FailKinds[((((k + o) \div 4) + o) % 5) + 1] ELSE "ok"

LetterFolder(n, o) ==
    [k \in 1..n |->
        [file_id |-> Zfill(Str(RangeFirst + k), 5),
         content |-> CASE LetterKind(k, o) = "notjson"  -> NotJson
                       [] LetterKind(k, o) = "noanswer" -> JsonDict([error |-> <<"x">>])
                       [] OTHER -> JsonDict([answer |-> <<"B", " ", "x">>])]]

ReplyPlan(n, o) ==
    [k \in 1..n |->
        IF LetterKind(k, o) \in {"notjson", "noanswer"} THEN "nocall" ELSE LetterKind(k, o)]

LetterSemLockedNever(value) == FALSE
\* Semaphore.locked()
LetterSemLocked(value) == value = 0

LetterTasks == DOMAIN folder

LetterWaiting == {k \in LetterTasks : letterPc[k] = "waiting"}

\* the first step of the task of file k, in the order gather created the
\* tasks: `async with semaphore` takes a permit or queues
LetterStart(k) ==
    /\ extractor = "extract_letter"
    /\ pcExtract = "files"
    /\ letterPc[k] = "new"
    /\ \A j \in 1..(k - 1) : letterPc[j] # "new"
    /\ IF LetterSemLocked(letterSem)
       THEN /\ letterPc' = [letterPc EXCEPT ![k] = "waiting"]
            /\ UNCHANGED letterSem
       ELSE /\ letterPc' = [letterPc EXCEPT ![k] = "inside"]
            /\ letterSem' = letterSem - 1
    /\ UNCHANGED <<replyPlan, successful>>
    /\ UNCHANGED <<dispatcherVars, csvRows, answerVars, prev, majorityVars, extractVars>>

\* the longest-waiting task is woken after a release and takes the permit
LetterWake(k) ==
    /\ extractor = "extract_letter"
    /\ pcExtract = "files"
    /\ letterPc[k] = "waiting"
    /\ \A j \in LetterWaiting : k <= j
    /\ ~LetterSemLocked(letterSem)
    /\ letterPc' = [letterPc EXCEPT ![k] = "inside"]
    /\ letterSem' = letterSem - 1
    /\ UNCHANGED <<replyPlan, successful>>
    /\ UNCHANGED <<dispatcherVars, csvRows, answerVars, prev, majorityVars, extractVars>>

\* process_single_file returns for file k, after the file was read and, if
\* it has an answer text, the provider replied; the permit is released. Every
\* task has taken its first step before any awaited read or request completes
LetterReturn(k) ==
    /\ extractor = "extract_letter"
    /\ pcExtract = "files"
    /\ letterPc[k] = "inside"
    /\ \A j \in LetterTasks : letterPc[j] # "new"
    /\ LET out == process_single_file(folder[k], replyPlan[k])
       IN  /\ letterResult' = [letterResult EXCEPT ![k] = out.ret]
           /\ letterReply' = [letterReply EXCEPT ![k] = replyPlan[k]]
           /\ letterFiles' =
                IF out.written
                THEN [x \in DOMAIN letterFiles \cup {k} |->
                        IF x = k THEN [answer |-> out.ret[2]] ELSE letterFiles[x]]
                ELSE letterFiles
           /\ printed' = Report(printed, out.msg, k)
    /\ letterPc' = [letterPc EXCEPT ![k] = "done"]
    /\ letterSem' = letterSem + 1
    /\ UNCHANGED <<replyPlan, successful>>
    /\ UNCHANGED <<extractor, folder, jsonIdx, answerRows, processed_ids, missing_ids,
                   pcExtract>>
    /\ UNCHANGED <<dispatcherVars, csvRows, answerVars, prev, majorityVars>>

\* gather has returned: `successful = len([r for r in results if r is not None])`
LetterCount ==
    /\ extractor = "extract_letter"
    /\ pcExtract = "files"
    /\ \A k \in LetterTasks : letterPc[k] = "done"
    /\ successful' = Cardinality({k \in LetterTasks : letterResult[k] # "None"})
    /\ pcExtract' = "done"
    /\ UNCHANGED <<letterPc, letterSem, replyPlan>>
    /\ UNCHANGED <<extractor, folder, jsonIdx, answerRows, processed_ids, missing_ids,
                   printed, letterReply, letterResult, letterFiles>>
    /\ UNCHANGED <<dispatcherVars, csvRows, answerVars, prev, majorityVars>>

InitLetter ==
    /\ DispatcherIdle
    /\ MajorityStart
    /\ AnswerIdle
    /\ extractor = "extract_letter"
    /\ \E n \in 0..MaxLetterFiles : \E o \in 0..3 :
          /\ folder = LetterFolder(n, o)
          /\ replyPlan = ReplyPlan(n, o)
    /\ jsonIdx = 0
    /\ answerRows = <<>>
    /\ processed_ids = {}
    /\ missing_ids = {}
    /\ printed = <<>>
    /\ letterReply = [k \in DOMAIN folder |-> "none"]
    /\ letterResult = [k \in DOMAIN folder |-> "pending"]
    /\ letterFiles = <<>>
    /\ pcExtract = "files"
    /\ letterPc = [k \in DOMAIN folder |-> "new"]
    /\ letterSem = LetterPermits
    /\ successful = "none"

NextLetter ==
    \/ \E k \in LetterTasks : LetterStart(k)
    \/ \E k \in LetterTasks : LetterWake(k)
    \/ \E k \in LetterTasks : LetterReturn(k)
    \/ LetterCount

SpecLetter == InitLetter /\ [][NextLetter]_vars

\* ------------------------------------------------------- inferenceo1 main
\* the ids of the CSV rows considered: "50", "51", "051", "251", "252", "a51"
SampleCsvIds ==
    {<<53, 48>>, <<53, 49>>, <<48, 53, 49>>, <<50, 53, 49>>, <<50, 53, 50>>,
     <<97, 53, 49>>}

\* all_questions.csv as csv.DictReader yields it
QuestionCsvs ==
    UNION {{[k \in 1..m |-> [id |-> ids[k], question |-> k]] :
                ids \in [1..m -> SampleCsvIds]} : m \in 0..MaxCsvRows}

InDispatchRangeAlways(id_num) == TRUE
\* `if 51 <= id_num <= 251`
InDispatchRange(id_num) == DispatchFirst <= id_num /\ id_num <= DispatchLast

\* the loop over the reader: `questions` after the rows given, or "ValueError"
\* when int(row['id']) raises at one of them
RECURSIVE ReadRows(_)
ReadRows(rows) ==
    IF rows = <<>> THEN <<>>
    ELSE LET before == ReadRows(SubSeq(rows, 1, Len(rows) - 1))
             row == rows[Len(rows)]
             id_num == ParseInt(row.id)
         IN  IF before = "ValueError" \/ ~id_num.ok THEN "ValueError"
             ELSE IF InDispatchRange(id_num.value)
                  THEN Append(before, [row EXCEPT !.id = Zfill(Str(id_num.value), 5)])
                  ELSE before

\* main up to `results = await processor.process_batch(questions)`: the rows
\* are read and filtered, and process_batch creates one task per question; a
\* ValueError leaves main before anything is dispatched
ReadQuestions ==
    /\ pcMain = "reading"
    /\ LET qs == ReadRows(csvRows)
       IN  IF qs = "ValueError"
           THEN /\ pcMain' = "crashed"
                /\ UNCHANGED <<questions, frameStore, pc, calls, response, taskResult>>
           ELSE /\ pcMain' = "gather"
                /\ questions' = qs
                /\ frameStore' \in FrameStores(variant, qs)
                /\ pc' = [i \in DOMAIN qs |-> "new"]
                /\ calls' = [i \in DOMAIN qs |-> 0]
                /\ response' = [i \in DOMAIN qs |-> "none"]
                /\ taskResult' = [i \in DOMAIN qs |-> NoResult]
    /\ UNCHANGED <<aux, variant, max_concurrent_requests, semaphore, waiters, running,
                   doneOrder, request_count, results, saveIdx, files>>

InitMain ==
    /\ variant = "o1"
    /\ max_concurrent_requests = MainConcurrent
    /\ questions = <<>>
    /\ frameStore = <<>>
    /\ pc = <<>>
    /\ semaphore = max_concurrent_requests
    /\ waiters = <<>>
    /\ running = 0
    /\ calls = <<>>
    /\ response = <<>>
    /\ taskResult = <<>>
    /\ doneOrder = <<>>
    /\ request_count = 0
    /\ pcMain = "reading"
    /\ results = <<>>
    /\ saveIdx = 0
    /\ files = <<>>
    /\ csvRows \in QuestionCsvs
    /\ prev = NoPrev
    /\ MajorityStart
    /\ ExtractIdle

\* inferenceo1 from its first line; with five permits and the batches
\* considered no task waits for a permit, and the script never sleeps
NextMain ==
    \/ ReadQuestions
    \/ \E i \in Tasks : Start(i)
    \/ \E i \in Tasks : \E kind \in Outcomes(variant) : CallReturn(i, kind)
    \/ Gather
    \/ SaveNext
    \/ Finish

SpecMain == InitMain /\ [][NextMain]_vars

\* ----------------------------------------------- extract_answer_from_json
\* the characters of the answer texts: the two tags, a letter of A..E, a
\* letter outside, '.', a blank and a newline
Tokens == {"<answer>", "</answer>", "A", "F", ".", " ", "\n"}

Texts == UNION {[1..n -> Tokens] : n \in 0..MaxTextLen}

\* the parsed JSON object: with an 'answer' text, or without the field
JsonContents == {[answer |-> t] : t \in Texts} \cup {[error |-> <<"x">>]}

\* one call of extract_answer_from_json
ExtractAnswer ==
    /\ returned = "pending"
    /\ returned' = extract_answer_from_json(answerJson)
    /\ UNCHANGED <<dispatcherVars, csvRows, answerJson, letterVars, prev, majorityVars>>
    /\ UNCHANGED <<extractor, folder, jsonIdx, answerRows, processed_ids, missing_ids,
                   printed, letterReply, letterResult, letterFiles, pcExtract>>

InitAnswer ==
    /\ DispatcherIdle
    /\ MajorityStart
    /\ LetterIdle
    /\ extractor = "extract_answers"
    /\ folder = <<>>
    /\ jsonIdx = 0
    /\ answerRows = <<>>
    /\ processed_ids = {}
    /\ missing_ids = {}
    /\ printed = <<>>
    /\ letterReply = <<>>
    /\ letterResult = <<>>
    /\ letterFiles = <<>>
    /\ pcExtract = "idle"
    /\ answerJson \in JsonContents
    /\ returned = "pending"

NextAnswer == ExtractAnswer

SpecAnswer == InitAnswer /\ [][NextAnswer]_vars

\* ================================================================ claims
IsError(r) == "error" \in DOMAIN r

\* the tasks inside `async with self.semaphore` (each holds one permit)
Holders == {i \in Tasks : pc[i] \in {"incall", "sleeping"}}

\* process_batch has returned its list
Returned == HasBatch(variant) /\ IF IsAsync(variant) THEN pcMain # "gather"
                                                      ELSE pcMain = "finished"

\* task i's own call or frame lookup failed
OwnFailure(i) ==
    \/ ChecksFrames(variant) /\ frameStore[questions[i].id] = 0
    \/ response[i] = "raise"
    \/ response[i] = "empty" /\ variant \notin {"gemini_thinking", "gemini_exp_pro"}

DistinctIds == \A a, b \in Tasks : questions[a].id = questions[b].id => a = b

\* number of positions of sequence f holding x
CountIn(f, x) == Cardinality({k \in DOMAIN f : f[k] = x})

SameBag(f, g) ==
    \A x \in {f[k] : k \in DOMAIN f} \cup {g[k] : k \in DOMAIN g} :
        CountIn(f, x) = CountIn(g, x)

Stripped(f) == [k \in DOMAIN f |-> Pop(f[k], "video_id")]

\* C1: under every concurrent script, at most max_concurrent_requests
\* WorkItems are inside the semaphore (remote call in flight) at any time.
C1_InFlightBounded ==
    IsAsync(variant) => Cardinality(Holders) <= max_concurrent_requests

\* the cap is reached while a further WorkItem queues for a permit
C1_Witness ==
    /\ IsAsync(variant)
    /\ Cardinality({i \in Tasks : pc[i] = "incall"}) = max_concurrent_requests
    /\ \E i \in Tasks : pc[i] = "waiting"

\* C2: once process_batch has returned, its list has exactly M Results and
\* is, as a bag, the Results of the M WorkItems: every WorkItem has produced
\* one, each carries its WorkItem's identifier (where Results carry one), none
\* is missing and none occurs twice.
C2_OneResultPerItem ==
    Returned =>
        /\ Len(results) = M
        /\ \A i \in Tasks : /\ taskResult[i] # NoResult
                            /\ ResultHasId(variant) =>
                                    taskResult[i].video_id = questions[i].id
        /\ SameBag(Stripped(results), Stripped(taskResult))
        /\ (saveIdx = 0 \/ ~IsAsync(variant)) => SameBag(results, taskResult)

\* a returned batch of several items, some failed and some answered
C2_Witness ==
    /\ Returned
    /\ M >= 2
    /\ \E i, j \in Tasks : IsError(taskResult[i]) /\ IsAnswer(taskResult[j])

\* C3: the Result of every finished WorkItem is an error Result exactly when
\* its own frame lookup or its own remote call failed, whatever happened to
\* the other WorkItems of the batch; a success carries the text of its own call.
C3_FailureIsolated ==
    \A i \in Tasks :
        pc[i] = "done" =>
            /\ IsError(taskResult[i]) <=> OwnFailure(i)
            /\ ~OwnFailure(i) => IsAnswer(taskResult[i])
            /\ response[i] = "ok" => taskResult[i].answer = Text(i)

\* a remote call failed first and a sibling answered after it
C3_Witness ==
    \E i, j \in Tasks :
        /\ response[i] = "raise" /\ response[j] = "ok"
        /\ \E a, b \in DOMAIN doneOrder : a < b /\ doneOrder[a] = i /\ doneOrder[b] = j
        /\ IsAnswer(taskResult[j])

\* C4 as claimed: in every script, a WorkItem with no frame files gets an
\* error Result and no remote call.
C4_Original ==
    \A i \in Tasks :
        frameStore[questions[i].id] = 0 =>
            /\ calls[i] = 0
            /\ pc[i] = "done" => IsError(taskResult[i])

\* C4 (amended): in every script that looks the frames up (all but
\* gemini_video), a WorkItem with no frame files gets the "No frames found"
\* error Result and no remote call is ever issued for it.
C4_NoFramesNoCall ==
    \A i \in Tasks :
        (ChecksFrames(variant) /\ frameStore[questions[i].id] = 0) =>
            /\ calls[i] = 0
            /\ response[i] = "none"
            /\ pc[i] \notin {"incall", "sleeping"}
            /\ pc[i] = "done" =>
                    /\ IsError(taskResult[i])
                    /\ taskResult[i].error = NoFramesError(questions[i].id)

\* an item without frames has its error Result while a sibling was called
C4_Witness ==
    \E i, j \in Tasks :
        /\ ChecksFrames(variant)
        /\ frameStore[questions[i].id] = 0 /\ pc[i] = "done"
        /\ calls[j] = 1

\* C5: permits are conserved: free permits plus permit holders is always N,
\* and when process_batch has returned all N permits are free again.
C5_PermitsConserved ==
    IsAsync(variant) =>
        /\ semaphore + Cardinality(Holders) = max_concurrent_requests
        /\ Returned => semaphore = max_concurrent_requests

\* the batch returned after a failed call and a successful one
C5_Witness ==
    /\ IsAsync(variant)
    /\ Returned
    /\ \E i, j \in Tasks : response[i] = "raise" /\ response[j] = "ok"

\* process_batch (the row loop of gemini_exp_pro) is over
BatchDone == IF IsAsync(variant) THEN pcMain # "gather" ELSE pcMain = "finished"

\* C6: when every remote call resolves, process_batch eventually returns,
\* and it does so only after every WorkItem has produced its Result.
C6_BatchTerminates ==
    /\ <>BatchDone
    /\ [](BatchDone => \A i \in Tasks : pc[i] = "done" /\ taskResult[i] # NoResult)

\* a batch larger than N = 1 returned after every item made its call
C6_Witness ==
    /\ IsAsync(variant)
    /\ BatchDone
    /\ max_concurrent_requests = 1
    /\ M >= 2
    /\ \A i \in Tasks : calls[i] = 1

\* C7: every Result process_question returns has exactly one of the fields
\* "answer" and "error".
C7_TaggedUnion ==
    \A i \in Tasks :
        taskResult[i] # NoResult => (IsAnswer(taskResult[i]) <=> ~IsError(taskResult[i]))

\* both kinds of Result were produced in one batch
C7_Witness ==
    \E i, j \in Tasks :
        /\ IsAnswer(taskResult[i]) /\ ~IsError(taskResult[i])
        /\ IsError(taskResult[j]) /\ ~IsAnswer(taskResult[j])

\* C8: the list process_batch returns is in input order: position k holds
\* the Result of WorkItem k, in whatever order the calls completed.
C8_InputOrder ==
    Returned =>
        /\ Len(results) = M
        /\ \A k \in Tasks :
            /\ Pop(results[k], "video_id") = Pop(taskResult[k], "video_id")
            /\ "video_id" \in DOMAIN results[k] => results[k].video_id = questions[k].id
            /\ response[k] = "ok" => results[k].answer = Text(k)

\* the batch returned although a later item completed before an earlier one
C8_Witness ==
    /\ Returned
    /\ \E a, b \in DOMAIN doneOrder : a < b /\ doneOrder[a] > doneOrder[b]
    /\ \E i, j \in Tasks : IsAnswer(taskResult[i]) /\ IsError(taskResult[j])

\* C9: no retries: at most one remote call is issued per WorkItem, and an
\* error Result, once produced, is never replaced.
C9_NoRetry ==
    /\ [](\A i \in Tasks : calls[i] <= 1)
    /\ [][\A i \in Tasks : IsError(taskResult[i]) => taskResult'[i] = taskResult[i]]_vars

\* a failed call left a final error Result after a single call
C9_Witness ==
    /\ pcMain = "finished"
    /\ \E i \in Tasks : response[i] = "raise" /\ calls[i] = 1 /\ IsError(taskResult[i])

\* C10: after a run over pairwise distinct identifiers the sink holds exactly
\* one artifact per WorkItem, under that item's identifier, holding that
\* item's own Result without its video_id; error Results are written too.
C10_OneArtifactPerItem ==
    (pcMain = "finished" /\ DistinctIds) =>
        /\ DOMAIN files = IdsOf(questions)
        /\ Cardinality(DOMAIN files) = M
        /\ \A i \in Tasks : files[questions[i].id] = Pop(taskResult[i], "video_id")

\* a finished run whose sink holds an answer artifact and an error artifact
C10_Witness ==
    /\ pcMain = "finished"
    /\ DistinctIds
    /\ \E i, j \in Tasks : IsError(files[questions[i].id]) /\ IsAnswer(files[questions[j].id])

\* the artifact of WorkItem i has been written (both save loops go in input order)
Written(i) == i <= saveIdx /\ questions[i].id \in DOMAIN files

\* C11 as claimed: every Result is persisted as soon as it exists: when a
\* later Result is produced, every earlier one has its artifact already.
C11_Original ==
    \A a, b \in DOMAIN doneOrder : a < b => Written(doneOrder[a])

\* C11 (amended): each WorkItem's Result is produced exactly once; the
\* sequential scripts write its artifact before the next WorkItem is started,
\* the asyncio scripts write no artifact before every WorkItem has completed.
C11_ProducedOncePersisted ==
    /\ \A i \in Tasks : CountIn(doneOrder, i) = (IF pc[i] = "done" THEN 1 ELSE 0)
    /\ \A i \in Tasks : pc[i] = "done" <=> taskResult[i] # NoResult
    /\ ~IsAsync(variant) =>
            \A i \in Tasks : (i + 1 \in Tasks /\ pc[i + 1] # "new") => Written(i)
    /\ IsAsync(variant) =>
            ((saveIdx > 0 \/ DOMAIN files # {}) => \A i \in Tasks : pc[i] = "done")

\* a sequential script has written the first artifact and is calling for the
\* second WorkItem
C11_Witness ==
    /\ ~IsAsync(variant)
    /\ M >= 2
    /\ Written(1)
    /\ pc[2] = "incall"

TaskStep == pcMain = "gather" /\ pcMain' = "gather" /\ IsAsync(variant)

\* the WorkItems whose own state a step changes
Touched ==
    {j \in Tasks : <<pc[j], calls[j], response[j], taskResult[j]>>
                    # <<pc'[j], calls'[j], response'[j], taskResult'[j]>>}

\* C17 as claimed: a step of one WorkItem's execution writes, besides that
\* WorkItem's own state, nothing but the permit pool.
C17_Original ==
    [][TaskStep =>
        /\ Cardinality(Touched) <= 1
        /\ UNCHANGED <<request_count, results, saveIdx, files, questions, frameStore>>]_vars

\* C17 (amended): the permit pool is the only mutable state shared between
\* WorkItems' executions, except in gemini_video, where every execution also
\* reads and writes self.request_count.
C17_OnlyPermitPoolShared ==
    [][TaskStep =>
        /\ Cardinality(Touched) <= 1
        /\ UNCHANGED <<results, saveIdx, files, questions, frameStore>>
        /\ variant # "gemini_video" => request_count' = request_count
        /\ request_count' # request_count =>
                \E i \in Touched : response[i] = "none" /\ response'[i] \in {"ok", "empty"}]_vars

\* outside gemini_video two WorkItems have run to their Results through the
\* semaphore and the counter is untouched
C17_Witness ==
    /\ IsAsync(variant) /\ variant # "gemini_video"
    /\ pcMain = "gather"
    /\ Cardinality({i \in Tasks : response[i] = "ok" /\ pc[i] = "done"}) >= 2
    /\ request_count = 0

\* C18: a WorkItem's execution suspends only at its remote call and at the
\* permit acquisition: while its call is outstanding the event loop is free to
\* run other WorkItems, and it never suspends anywhere else.
C18_YieldsAtCallAndAcquire ==
    IsAsync(variant) =>
        \A i \in Tasks : /\ pc[i] = "incall" => running = 0
                         /\ pc[i] # "sleeping"

\* C19 as claimed: every remote call any script issues passes temperature 0.
C19_Original ==
    \A i \in Tasks :
        calls[i] > 0 =>
            \A sc \in ScriptsOf(variant) :
                /\ "temperature" \in DOMAIN CallParams(sc)
                /\ CallParams(sc).temperature = 0

\* the scripts that pass no sampling temperature with their call
NoTemperature == {"inferenceo1", "gemini_video"}

\* C19 (amended): every remote call issued by a script other than inferenceo1
\* and gemini_video passes temperature 0; those two pass no temperature.
C19_TemperatureZero ==
    \A i \in Tasks :
        calls[i] > 0 =>
            \A sc \in ScriptsOf(variant) :
                IF sc \in NoTemperature
                THEN "temperature" \notin DOMAIN CallParams(sc)
                ELSE /\ "temperature" \in DOMAIN CallParams(sc)
                     /\ CallParams(sc).temperature = 0

\* a script that sets the temperature has issued a call
C19_Witness ==
    /\ variant = "gemini_pro"
    /\ \E i \in Tasks : calls[i] = 1 /\ response[i] = "ok"

FramesAbsent(i) == ChecksFrames(variant) /\ frameStore[questions[i].id] = 0

\* C20 as claimed: a WorkItem without frames never waits for a permit.
C20_Original ==
    \A i \in Tasks : FramesAbsent(i) => pc[i] # "waiting"

\* C20 (amended): a WorkItem without frames fails with the missing-input
\* error in the very step in which it gets a permit, without a remote call;
\* it queues for a permit first exactly when the semaphore is locked.
C20_FailsOnceAdmitted ==
    [][\A i \in Tasks :
        (FramesAbsent(i) /\ pc'[i] # pc[i]) =>
            /\ pc'[i] \in {"waiting", "done"}
            /\ pc'[i] = "waiting" <=>
                    (IsAsync(variant) /\ pc[i] = "new"
                        /\ (semaphore = 0 \/ waiters # <<>>))
            /\ pc'[i] = "done" =>
                    /\ taskResult'[i].error = NoFramesError(questions[i].id)
                    /\ calls'[i] = 0
                    /\ semaphore' = semaphore]_vars

\* a WorkItem without frames queues while a sibling's call holds the permit
C20_Witness ==
    \E i, j \in Tasks :
        /\ FramesAbsent(i) /\ pc[i] = "waiting"
        /\ pc[j] = "incall"

\* answer / error tag of a stored Result
Tag(content) == IF "error" \in DOMAIN content THEN "error" ELSE "answer"

\* C12: a second run over the same batch and frame store writes only slots the
\* first run wrote, and when its calls have the same outcomes every slot ends
\* with a Result of the same answer/error tag, over the same set of slots.
C12_RerunIdempotent ==
    prev # NoPrev =>
        /\ DOMAIN files = DOMAIN prev.files
        /\ (pcMain = "finished" /\ response = prev.response) =>
                \A x \in DOMAIN files : Tag(files[x]) = Tag(prev.files[x])

\* the second run has finished with the outcomes of the first, over a batch
\* with an answer and an error
C12_Witness ==
    /\ prev # NoPrev
    /\ pcMain = "finished"
    /\ response = prev.response
    /\ \E x, y \in DOMAIN files : Tag(files[x]) = "answer" /\ Tag(files[y]) = "error"

\* occurrences of a among the answers collected for one id
Occurrences(answers, a) == Cardinality({k \in DOMAIN answers : answers[k] = a})

\* the answers collected for id
AnswersOf(id) ==
    LET k == CHOOSE j \in DOMAIN all_answers : all_answers[j].id = id
    IN  all_answers[k].answers

\* C15: the answer returned for an id occurs among the id's answers as often
\* as any other answer does, and among the answers that occur as often it is
\* the alphabetically first.
C15_MajorityTieFirst ==
    pcMajority = "done" =>
        \A k \in DOMAIN result_df :
            LET r == result_df[k]
                answers == AnswersOf(r.id)
            IN  /\ Occurrences(answers, r.answer) >= 1
                /\ \A b \in Answers :
                    /\ Occurrences(answers, b) <= Occurrences(answers, r.answer)
                    /\ Occurrences(answers, b) = Occurrences(answers, r.answer)
                            => r.answer <= b

\* an id with a tie whose first-seen answer is not the alphabetically first,
\* and an id whose most frequent answer is not its alphabetically first
C15_Witness ==
    /\ pcMajority = "done"
    /\ \E k \in DOMAIN result_df :
        /\ AnswersOf(result_df[k].id) = <<66, 65>>
        /\ result_df[k].answer = 65

\* the files handled so far
Handled ==
    IF extractor = "extract_answers" THEN 1..jsonIdx
    ELSE {k \in DOMAIN folder : letterResult[k] # "pending"}

\* file k is one the script reads and its processing fails: no answer tag,
\* unreadable JSON, no answer text, or a provider failure
FileFails(k) ==
    LET f == folder[k]
    IN  IF extractor = "extract_answers"
        THEN /\ ParseInt(f.file_id).ok /\ InRange(ParseInt(f.file_id).value)
             /\ \/ f.content.kind # "json"
                \/ extract_answer_from_json(f.content.data) = "None"
        ELSE \/ ~CallsProvider(f)
             \/ letterReply[k] # "ok"

\* the rows of the output that belong to file k
RowsOf(k) == {i \in DOMAIN answerRows : answerRows[i][1] = folder[k].file_id
                                          /\ answerRows[i][2] # "X"}

\* something was produced for file k: a row, a returned value or an artifact
HasOutput(k) ==
    IF extractor = "extract_answers" THEN RowsOf(k) # {}
    ELSE letterResult[k] # "None" \/ k \in DOMAIN letterFiles

\* C13 as claimed: a file whose processing failed has a Result that carries
\* its error.
C13_Original ==
    \A k \in Handled : FileFails(k) => HasOutput(k)

\* C13 (amended): a per-file failure is caught and only printed: the file
\* gets no row (extract_answers) and no returned value or artifact
\* (extract_letter returns None); one message is printed for it; and every
\* other file is processed as if the failure had not happened.
C13_FailureOnlyReported ==
    /\ \A k \in Handled :
        /\ FileFails(k) =>
            /\ ~HasOutput(k)
            /\ Cardinality({i \in DOMAIN printed : printed[i][2] = k}) = 1
        /\ (pcExtract # "idle" /\ ~FileFails(k)
                /\ (extractor = "extract_answers" =>
                        /\ ParseInt(folder[k].file_id).ok
                        /\ InRange(ParseInt(folder[k].file_id).value)))
            => /\ HasOutput(k)
               /\ \A i \in DOMAIN printed : printed[i][2] # k
    /\ pcExtract = "done" => Handled = DOMAIN folder

\* the script has finished over a folder in which a failing file came before
\* a good one
C13_Witness ==
    /\ pcExtract = "done"
    /\ \E a, b \in DOMAIN folder :
        /\ a < b
        /\ FileFails(a) /\ ~HasOutput(a)
        /\ ~FileFails(b) /\ HasOutput(b)

\* C14: whatever the folder holds, each id 1..50 has exactly one row, with
\* the answer 'X' (row n of the list, before and after the sort, and no
\* later row has an id below 51), and every other row comes from a file
\* whose id is in 51..251.
C14_SentinelAndRange ==
    (extractor = "extract_answers" /\ pcExtract # "idle") =>
        /\ \A n \in 1..SentinelLast : answerRows[n] = <<Zfill(Str(n), 5), "X">>
        /\ \A i \in DOMAIN answerRows \ (1..SentinelLast) :
                /\ ParseInt(answerRows[i][1]).value \in RangeFirst..RangeLast
                /\ answerRows[i][2] \in AnswerLetters
        /\ \A k \in 1..jsonIdx :
            (~ParseInt(folder[k].file_id).ok
                \/ ParseInt(folder[k].file_id).value \notin RangeFirst..RangeLast)
            => RowsOf(k) = {}

\* the CSV is written for a folder with tagged answers under the ids 50, 51
\* and 252
C14_Witness ==
    /\ extractor = "extract_answers"
    /\ pcExtract = "done"
    /\ \E a, b, c \in DOMAIN folder :
        /\ ParseInt(folder[a].file_id).value = SentinelLast
        /\ ParseInt(folder[b].file_id).value = RangeFirst
        /\ ParseInt(folder[c].file_id).value = RangeLast + 1
        /\ \A k \in {a, b, c} :
            /\ folder[k].content.kind = "json"
            /\ extract_answer_from_json(folder[k].content.data) # "None"
        /\ RowsOf(b) # {}

\* the WorkItems whose remote call is outstanding
InCall == {i \in Tasks : pc[i] = "incall"}

\* C21: in the sequential scripts the WorkItems are processed one after
\* another in input order: at most one remote call is in flight, and when
\* item i + 1 has been started the artifact of item i is written.
C21_StrictlySequential ==
    ~IsAsync(variant) =>
        /\ Cardinality(InCall) <= 1
        /\ \A i \in Tasks : pc[i] # "new" =>
                \A j \in 1..(i - 1) : pc[j] = "done" /\ Written(j)
        /\ \A a, b \in DOMAIN doneOrder : a < b => doneOrder[a] < doneOrder[b]
        /\ \A i \in InCall : saveIdx = i - 1 /\ running = i

\* the third item's call is in flight and both earlier artifacts are written
C21_Witness ==
    /\ ~IsAsync(variant)
    /\ M >= 3
    /\ pc[3] = "incall"
    /\ Written(1) /\ Written(2)
    /\ calls[1] = 1 /\ calls[2] = 1

\* the last WorkItem in input order with identifier x
LastWith(x) == CHOOSE i \in Tasks :
                    /\ questions[i].id = x
                    /\ \A j \in Tasks : questions[j].id = x => j <= i

\* C27: identifiers may repeat in a batch: every WorkItem still gets its
\* Result (M in total), the sink ends with one artifact per distinct
\* identifier, and that artifact is the Result of the last WorkItem in input
\* order that has the identifier.
C27_LastDuplicateWins ==
    pcMain = "finished" =>
        /\ HasBatch(variant) => Len(results) = M
        /\ \A i \in Tasks : taskResult[i] # NoResult
        /\ DOMAIN files = IdsOf(questions)
        /\ \A x \in IdsOf(questions) :
                files[x] = Pop(taskResult[LastWith(x)], "video_id")

\* two answered WorkItems share an identifier and the artifact is the later
\* one's answer, not the earlier one's
C27_Witness ==
    /\ pcMain = "finished"
    /\ \E i, j \in Tasks :
        /\ i < j
        /\ questions[i].id = questions[j].id
        /\ IsAnswer(taskResult[i]) /\ IsAnswer(taskResult[j])
        /\ files[questions[i].id] = Pop(taskResult[j], "video_id")
        /\ files[questions[i].id] # Pop(taskResult[i], "video_id")

\* the success Results produced so far
SuccessResults == {i \in Tasks : taskResult[i] # NoResult /\ IsAnswer(taskResult[i])}

\* C28 as claimed: in gemini_video, after a batch request_count equals the
\* number of success Results.
C28_Original ==
    (variant = "gemini_video" /\ \A i \in Tasks : pc[i] = "done") =>
        request_count = Cardinality(SuccessResults)

\* the calls that returned a response
ReturnedCalls == {i \in Tasks : response[i] \in {"ok", "empty"}}

\* C28 (amended): in gemini_video request_count counts the calls that
\* returned a response: a call that raises does not advance it, a call whose
\* response has no text does, so request_count is the number of success
\* Results plus the number of Results that failed on reading response.text.
\* A cooldown sleep is entered exactly when a returned call brings the
\* counter to a multiple of batch_size, by the item that made the call, and
\* a sleeping item holds its permit.
C28_CounterAndCooldown ==
    [][variant = "gemini_video" =>
        /\ request_count' = Cardinality(ReturnedCalls')
        /\ (\A i \in Tasks : pc'[i] = "done") =>
                request_count' = Cardinality(SuccessResults')
                    + Cardinality({i \in Tasks : response'[i] = "empty"})
        /\ \A i \in Tasks :
            (pc'[i] = "sleeping" /\ pc[i] # "sleeping") <=>
                /\ pc[i] = "incall"
                /\ response'[i] \in {"ok", "empty"}
                /\ request_count' = request_count + 1
                /\ request_count' % batch_size = 0
        /\ \A i \in Tasks : response'[i] = "raise" /\ response[i] = "none" =>
                request_count' = request_count
        /\ semaphore' + Cardinality({i \in Tasks : pc'[i] \in {"incall", "sleeping"}})
                = max_concurrent_requests]_vars

\* a finished batch of gemini_video with a raised call, a response without
\* text and a cooldown taken at the fifth returned call
C28_Witness ==
    /\ variant = "gemini_video"
    /\ pcMain = "finished"
    /\ request_count = batch_size
    /\ \E i, j \in Tasks : response[i] = "raise" /\ response[j] = "empty"
    /\ Cardinality(SuccessResults) = batch_size - 1

\* the CSV rows whose id is an integer from 51 to 251
InRangeRows ==
    {k \in DOMAIN csvRows :
        LET id_num == ParseInt(csvRows[k].id)
        IN  id_num.ok /\ id_num.value \in 51..251}

\* the questions are the rows of InRangeRows, in the order of the CSV, each
\* with its id written as five digits
QuestionsAsClaimed ==
    /\ Len(questions) = Cardinality(InRangeRows)
    /\ \A k \in InRangeRows :
          LET q == questions[Cardinality({j \in InRangeRows : j <= k})]
          IN  /\ q.question = csvRows[k].question
              /\ Len(q.id) = 5
              /\ IsDigits(q.id)
              /\ DigitsValue(q.id) = ParseInt(csvRows[k].id).value

\* the tasks and the artifacts are those of the questions
OnlyQuestionsProcessed ==
    /\ DOMAIN pc = DOMAIN questions
    /\ DOMAIN calls = DOMAIN questions
    /\ DOMAIN files \subseteq IdsOf(questions)
    /\ pcMain = "finished" => DOMAIN files = IdsOf(questions)

\* C22 as stated: once inferenceo1's main has read the CSV, the WorkItems
\* are exactly the rows whose integer id is between 51 and 251.
C22_Original ==
    pcMain # "reading" => QuestionsAsClaimed /\ OnlyQuestionsProcessed

\* C22: when every id of the CSV is an integer literal, inferenceo1's main
\* dispatches exactly the rows with 51 <= id <= 251, in input order, each id
\* as five digits, and the other rows get no WorkItem, call or artifact; a
\* row whose id is no integer makes main raise ValueError before anything is
\* dispatched, so that no row gets a WorkItem, call or artifact.
C22_DispatchesRangeRows ==
    /\ pcMain # "reading" =>
          (pcMain = "crashed" <=> \E k \in DOMAIN csvRows : ~ParseInt(csvRows[k].id).ok)
    /\ pcMain \notin {"reading", "crashed"} =>
          QuestionsAsClaimed /\ OnlyQuestionsProcessed
    /\ pcMain = "crashed" => questions = <<>> /\ pc = <<>> /\ files = <<>>

\* "252", "051" and "51" were read: two WorkItems named "00051", both called,
\* one artifact
C22_Witness ==
    /\ pcMain = "finished"
    /\ csvRows = << [id |-> <<50, 53, 50>>, question |-> 1],
                    [id |-> <<48, 53, 49>>, question |-> 2],
                    [id |-> <<53, 49>>, question |-> 3] >>
    /\ Len(questions) = 2
    /\ questions[1] = [id |-> <<48, 48, 48, 53, 49>>, question |-> 2]
    /\ calls[1] = 1 /\ calls[2] = 1
    /\ DOMAIN files = {<<48, 48, 48, 53, 49>>}

\* the text holds <answer>L</answer>, or <answer>L, then '.' or whitespace,
\* then any content up to an </answer>, with L in A..E
HasAnswerTag(text) ==
    \E p \in DOMAIN text :
        /\ p + 2 <= Len(text)
        /\ text[p] = "<answer>"
        /\ text[p + 1] \in AnswerLetters
        /\ \/ text[p + 2] = "</answer>"
           \/ /\ text[p + 2] \in {".", " ", "\n"}
              /\ \E q \in (p + 3)..Len(text) : text[q] = "</answer>"

\* C23: extract_answer_from_json returns a letter of A..E whenever the answer
\* text holds a tag <answer>L</answer> or <answer>L, '.' or whitespace,
\* further content</answer>; it returns None when the text holds no such tag
\* or the field is absent; it returns nothing else.
C23_ExtractsTaggedLetter ==
    returned # "pending" =>
        /\ returned \in AnswerLetters \cup {"None"}
        /\ returned \in AnswerLetters <=> HasAnswerTag(GetAnswer(answerJson))

\* the file is read and has both required columns
GoodFile(f) == f.readable /\ {"id", "answer"} \subseteq f.columns

KeysOf(d) == {d[k].id : k \in DOMAIN d}

\* C24: what find_majority_answers returns has exactly one row per id of
\* all_answers, the ids of the rows of the files that were read and have both
\* columns, and the rows are in ascending order of id.
C24_OneRowPerIdSorted ==
    pcMajority = "done" =>
        /\ Len(result_df) = Cardinality(KeysOf(all_answers))
        /\ \A x \in KeysOf(all_answers) :
              Cardinality({k \in DOMAIN result_df : result_df[k].id = x}) = 1
        /\ \A j, k \in DOMAIN result_df :
              j < k => result_df[j].id < result_df[k].id

\* id 2 was collected before id 1, id 1 from two rows: two rows are returned,
\* id 1 first
C24_Witness ==
    /\ pcMajority = "done"
    /\ Len(all_answers) = 2
    /\ all_answers[1].id = 2
    /\ all_answers[2].id = 1
    /\ Len(all_answers[2].answers) = 2
    /\ Len(result_df) = 2
    /\ result_df[1].id = 1

\* C25: an iteration of the loop over csv_files that reports its file as
\* unreadable or as lacking a required column leaves all_answers as it was,
\* and the loop goes on with the next file.
C25_BadFileSkipped ==
    [][filesRead' = filesRead + 1 =>
            /\ pcMajority' = "reading"
            /\ Len(skipped') \in {Len(skipped), Len(skipped) + 1}
            /\ skipped' # skipped => all_answers' = all_answers]_vars

\* an unreadable file and one without 'answer' column were skipped, and the
\* answers of the third file were counted
C25_Witness ==
    /\ pcMajority = "done"
    /\ filesRead = 3
    /\ Len(skipped) = 2
    /\ skipped[1] # skipped[2]
    /\ TotalAnswers(all_answers) = 2
    /\ Len(result_df) = 1

\* int(id) of the rows that hold an extracted answer
ExtractedIds ==
    {ParseInt(answerRows[k][1]).value : k \in (SentinelLast + 1)..Len(answerRows)}

\* C26: in process_files the rows written are in ascending order of int(id),
\* and the ids reported missing are exactly the ids from 51 to 251 without a
\* row of an extracted answer.
C26_SortedAndMissing ==
    extractor = "extract_answers" /\ pcExtract = "done" =>
        /\ \A k \in 1..(Len(answerRows) - 1) :
              ParseInt(answerRows[k][1]).value <= ParseInt(answerRows[k + 1][1]).value
        /\ missing_ids = (51..251) \ ExtractedIds

\* 00051_, 00251_ and 51_ gave answers in this order; the row of "51" was
\* moved before the row of "00251", and 51 and 251 are not reported missing
C26_Witness ==
    /\ extractor = "extract_answers"
    /\ pcExtract = "done"
    /\ Len(answerRows) = 53
    /\ answerRows[51][1] = <<48, 48, 48, 53, 49>>
    /\ answerRows[52][1] = <<53, 49>>
    /\ answerRows[53][1] = <<48, 48, 50, 53, 49>>
    /\ 51 \notin missing_ids /\ 251 \notin missing_ids /\ 52 \in missing_ids

\* the files whose request to the provider is in flight
LetterInFlight ==
    {k \in LetterTasks : letterPc[k] = "inside" /\ CallsProvider(folder[k])}

\* C29: in extract_letter's process_all_files an artifact exists for a file
\* only if the provider replied to it with status 200; a file without answer
\* text, with another status or with an exception returns None and leaves no
\* artifact, while every file answered with a completion returns its result
\* and has its artifact; at most 10 requests are in flight; and the count
\* printed is the number of files whose result is not None.
C29_FailuresIsolatedAndCapped ==
    extractor = "extract_letter" =>
        /\ \A k \in DOMAIN letterFiles : letterReply[k] \in {"ok", "malformed"}
        /\ \A k \in LetterTasks :
              letterPc[k] = "done" =>
                  IF CallsProvider(folder[k]) /\ replyPlan[k] = "ok"
                  THEN /\ letterResult[k] = <<folder[k].file_id, Completion>>
                       /\ k \in DOMAIN letterFiles
                       /\ letterFiles[k] = [answer |-> Completion]
                  ELSE /\ letterResult[k] = "None"
                       /\ k \notin DOMAIN letterFiles
        /\ Cardinality(LetterInFlight) <= 10
        /\ pcExtract = "done" =>
              successful = Cardinality({k \in LetterTasks : letterResult[k] # "None"})

\* ten requests are in flight, after one file failed with None and no
\* artifact and the file that had queued for its permit was admitted
C29_Witness ==
    /\ extractor = "extract_letter"
    /\ Len(folder) = 11
    /\ Cardinality(LetterInFlight) = 10
    /\ \E k \in LetterTasks :
          /\ letterPc[k] = "done"
          /\ letterReply[k] = "non200"
          /\ letterResult[k] = "None"
    /\ letterPc[11] = "inside"
    /\ letterFiles = <<>>

====
